---- MODULE Spec2Model ----
(***************************************************************************)
(* Birthday reminder bot: the record store (src/db.py) and the command     *)
(* handlers and daily sweep (src/bot.py).                                  *)
(*                                                                         *)
(* The handlers are asyncio coroutines on one event loop.  Store calls are *)
(* synchronous, so the only place where daily_check can be interleaved     *)
(* with a command handler is its await of send_message (bot.py:179).       *)
(***************************************************************************)
EXTENDS Integers, Sequences, FiniteSets, TLC

\* ------------------------------------------------------------------ bounds
MaxAdds    == 2     \* number of /add commands in a run
MaxDeletes == 1     \* number of /delete commands in a run
MaxSweeps  == 2     \* number of daily_check runs in a run
MaxDays    == 1     \* number of midnights that pass in a run
MaxStored  == 3     \* rows of a database file left by an earlier process
MaxDailyDays == 8   \* days over which daily_check runs once every day

\* --------------------------------------------------------------- constants
DAYS_BEFORE == 3
None == 0           \* SQL NULL / Python None (real years are positive)

\* ------------------------------------------------------------------ inputs
Users == {1, 2}

\* Names are sequences of Unicode code points: "A", "a", and the Cyrillic
\* pair U+042F / U+044F (the bot's own examples use Cyrillic names).
Names == {<<65>>, <<97>>, <<1071>>, <<1103>>}

\* date texts that parse_date accepts: "29.02", "1990-01-02", "29/12"
GoodDateTexts ==
    {<<"2", "9", ".", "0", "2">>,
     <<"1", "9", "9", "0", "-", "0", "1", "-", "0", "2">>,
     <<"2", "9", "/", "1", "2">>}

\* date texts that it rejects: "2912", "x.02", "14.13", "31.02"
BadDateTexts ==
    {<<"2", "9", "1", "2">>,
     <<"x", ".", "0", "2">>,
     <<"1", "4", ".", "1", "3">>,
     <<"3", "1", ".", "0", "2">>}

DateTexts == GoodDateTexts \cup BadDateTexts

\* context.args of /add: none, a name alone, or a name and a date text; the
\* name may be empty
AddArgs ==
    {<<>>, << <<65>> >>}
        \cup {<<n, t>> : n \in Names, t \in GoodDateTexts}
        \cup {<< <<65>>, t>> : t \in BadDateTexts}
        \cup {<< <<>>, t>> : t \in {<<"2", "9", ".", "0", "2">>}}

\* context.args of /delete
DeleteArgs == {<<>>} \cup {<<n>> : n \in Names \cup {<<>>}}

\* values of date.today() at which a run may begin
StartDates == {<<2023, 12, 29>>}

\* the day of the first run when daily_check runs once every day
DailyStartDates == {<<2023, 12, 26>>}

\* ------------------------------------------------- datetime.date (library)
IsLeap(y) == (y % 4 = 0 /\ y % 100 # 0) \/ y % 400 = 0

DaysInMonth(y, m) ==
    IF m = 2 THEN (IF IsLeap(y) THEN 29 ELSE 28)
    ELSE IF m \in {4, 6, 9, 11} THEN 30 ELSE 31

\* the value standing for a raised ValueError
ValueError == [year |-> 0, month |-> 0, day |-> 0]

\* date(y, m, d): the constructor validates its arguments (MINYEAR = 1,
\* MAXYEAR = 9999)
date(y, m, d) ==
    IF y >= 1 /\ y <= 9999 /\ m >= 1 /\ m <= 12 /\ d >= 1 /\ d <= DaysInMonth(y, m)
    THEN [year |-> y, month |-> m, day |-> d]
    ELSE ValueError

RECURSIVE DaysBeforeMonth(_, _)
DaysBeforeMonth(y, m) ==
    IF m <= 1 THEN 0 ELSE DaysBeforeMonth(y, m - 1) + DaysInMonth(y, m - 1)

DaysBeforeYear(y) ==
    (y - 1) * 365 + ((y - 1) \div 4) - ((y - 1) \div 100) + ((y - 1) \div 400)

\* date.toordinal(): proleptic Gregorian day number
toordinal(dt) == DaysBeforeYear(dt.year) + DaysBeforeMonth(dt.year, dt.month) + dt.day

\* (a - b).days
days_between(a, b) == toordinal(a) - toordinal(b)

\* the calendar day after dt (the time source at midnight)
tomorrow(dt) ==
    IF dt.day < DaysInMonth(dt.year, dt.month)
    THEN [dt EXCEPT !.day = dt.day + 1]
    ELSE IF dt.month < 12
    THEN [year |-> dt.year, month |-> dt.month + 1, day |-> 1]
    ELSE [year |-> dt.year + 1, month |-> 1, day |-> 1]

\* ------------------------------------------------------------ bot.py:31-57
\* A text is a sequence of one-character strings.
Digits == {"0", "1", "2", "3", "4", "5", "6", "7", "8", "9"}

digit(c) ==
    CASE c = "0" -> 0 [] c = "1" -> 1 [] c = "2" -> 2 [] c = "3" -> 3
      [] c = "4" -> 4 [] c = "5" -> 5 [] c = "6" -> 6 [] c = "7" -> 7
      [] c = "8" -> 8 [] c = "9" -> 9

\* str.strip(): leading and trailing blanks removed
RECURSIVE lstrip(_)
lstrip(s) == IF s # <<>> /\ Head(s) = " " THEN lstrip(Tail(s)) ELSE s

RECURSIVE rstrip(_)
rstrip(s) ==
    IF s # <<>> /\ s[Len(s)] = " " THEN rstrip(SubSeq(s, 1, Len(s) - 1)) ELSE s

strip(s) == rstrip(lstrip(s))

\* str.split(sep): the pieces between the separators, empty pieces kept
RECURSIVE split(_, _)
split(s, sep) ==
    IF s = <<>> THEN << <<>> >>
    ELSE LET rest == split(Tail(s), sep) IN
         IF Head(s) = sep THEN << <<>> >> \o rest
         ELSE << <<Head(s)>> \o rest[1] >> \o Tail(rest)

all_digits(x) == x # <<>> /\ \A i \in 1..Len(x) : x[i] \in Digits

RECURSIVE digits_value(_)
digits_value(x) ==
    IF x = <<>> THEN 0
    ELSE 10 * digits_value(SubSeq(x, 1, Len(x) - 1)) + digit(x[Len(x)])

\* int(x) returns: blanks around the number and one sign are accepted
int_ok(x) ==
    LET t == strip(x) IN
    IF t # <<>> /\ t[1] \in {"+", "-"} THEN all_digits(Tail(t)) ELSE all_digits(t)

int(x) ==
    LET t == strip(x) IN
    IF t[1] = "-" THEN 0 - digits_value(Tail(t))
    ELSE IF t[1] = "+" THEN digits_value(Tail(t))
    ELSE digits_value(t)

\* lines 35-39: datetime.strptime(s, "%Y-%m-%d").date().  %Y is four digits,
\* %m one or two digits in 1..12, %d one or two digits in 1..31; the date is
\* then built with the year given.
strptime(s) ==
    LET parts == split(s, "-") IN
    IF /\ Len(parts) = 3
       /\ all_digits(parts[1]) /\ Len(parts[1]) = 4
       /\ all_digits(parts[2]) /\ Len(parts[2]) <= 2
       /\ digits_value(parts[2]) >= 1 /\ digits_value(parts[2]) <= 12
       /\ all_digits(parts[3]) /\ Len(parts[3]) <= 2
       /\ digits_value(parts[3]) >= 1 /\ digits_value(parts[3]) <= 31
    THEN date(digits_value(parts[1]), digits_value(parts[2]), digits_value(parts[3]))
    ELSE ValueError

\* the value standing for parse_date raising
ParseError == <<>>

\* lines 43-48: DD<sep>MM, checked by way of date(2000, month, day)
two_parts_unchecked(dd, mm) ==
    IF int_ok(dd) /\ int_ok(mm) THEN <<int(dd), int(mm), None>> ELSE ParseError

two_parts(dd, mm) ==
    IF int_ok(dd) /\ int_ok(mm) /\ date(2000, int(mm), int(dd)) # ValueError
    THEN <<int(dd), int(mm), None>>
    ELSE ParseError

\* lines 49-55: DD<sep>MM<sep>YYYY, checked by way of date(year, month, day)
three_parts(dd, mm, yyyy) ==
    IF /\ int_ok(dd) /\ int_ok(mm) /\ int_ok(yyyy)
       /\ date(int(yyyy), int(mm), int(dd)) # ValueError
    THEN <<int(dd), int(mm), int(yyyy)>>
    ELSE ParseError

\* lines 41-57: the first separator that cuts s in two or three decides
RECURSIVE for_sep(_, _)
for_sep(s, seps) ==
    IF seps = <<>> THEN ParseError
    ELSE LET parts == split(s, Head(seps)) IN
         IF Len(parts) = 2 THEN two_parts(parts[1], parts[2])
         ELSE IF Len(parts) = 3 THEN three_parts(parts[1], parts[2], parts[3])
         ELSE for_sep(s, Tail(seps))

parse_date(raw) ==
    LET s  == strip(raw)
        dt == strptime(s)
    IN  IF dt # ValueError THEN <<dt.day, dt.month, dt.year>>
        ELSE for_sep(s, <<".", "-", "/">>)

\* line 92: parse_date(date_raw), tabulated for the date texts
parsed == [t \in DateTexts |-> parse_date(t)]

\* (day, month, year) triples as parse_date returns them for the date texts
BirthdayInputs == {parsed[t] : t \in GoodDateTexts}

\* ------------------------------------------------------------ bot.py:60-62
\* a >= b on dates: by year, then month, then day
date_ge(a, b) ==
    \/ a.year > b.year
    \/ a.year = b.year /\ a.month > b.month
    \/ a.year = b.year /\ a.month = b.month /\ a.day >= b.day

next_occurrence(day, month, today) ==
    LET d == date(today.year, month, day) IN
    IF d = ValueError THEN ValueError
    ELSE IF date_ge(d, today) THEN d
    ELSE date(today.year + 1, month, day)

\* line 171: the reminder window
in_window_wide(days_left) == 0 <= days_left /\ days_left <= DAYS_BEFORE + 1

in_window(days_left) == 0 <= days_left /\ days_left <= DAYS_BEFORE

\* line 175: already notified for this occurrence
already_notified_birth_year(r, occ) == r.last_notified_year = r.year

already_notified(r, occ) == r.last_notified_year = occ.year

\* ------------------------------------------------------------------- db.py
\* SQLite folds the 26 upper-case ASCII letters only, in COLLATE NOCASE
\* and in LOWER() alike
nocase_char(c) == IF c >= 65 /\ c <= 90 THEN c + 32 ELSE c

NOCASE(name) == [i \in 1..Len(name) |-> nocase_char(name[i])]

LOWER(name) == [i \in 1..Len(name) |-> nocase_char(name[i])]

VARIABLES
    clock,          \* date.today() of the time source
    birthdays,      \* the rows of table birthdays
    seq,            \* sqlite_sequence: the largest id ever handed out
    pc,             \* where daily_check is: idle, for_user, for_b, send
    today,          \* daily_check's local today             (bot.py:165)
    users,          \* users the outer loop still has to visit (bot.py:166)
    user_id,        \* the outer loop variable
    rows,           \* rows the inner loop still has to visit  (bot.py:167)
    b,              \* the inner loop variable while awaiting send_message
    outbox,         \* history: every call of send_message, in order
    runs,           \* history: every run of daily_check, in order
    cmd,            \* history: the command handled by the last step, if any
    gen,            \* history: per id, how many upserts have written it
    nadd, ndel, ndays

vars == <<clock, birthdays, seq, pc, today, users, user_id, rows, b,
          outbox, runs, cmd, gen, nadd, ndel, ndays>>

Ids == 1..(MaxAdds + MaxStored)

NoRow == [id |-> 0, user_id |-> 0, name |-> <<>>, day |-> 0, month |-> 0,
          year |-> None, last_notified_year |-> None]

\* rows that collide with (user_id, name) under UNIQUE(user_id, name COLLATE NOCASE)
conflict(tbl, uid, name) ==
    {r \in tbl : r.user_id = uid /\ NOCASE(r.name) = NOCASE(name)}

\* db.py:38-51  INSERT ... ON CONFLICT(user_id, name) DO UPDATE.  The row
\* keeps its id and its stored name.
upsert_birthday_replace(tbl, s, uid, name, day, month, year) ==
    (tbl \ conflict(tbl, uid, name))
        \cup {[id |-> s + 1, user_id |-> uid, name |-> name, day |-> day,
                month |-> month, year |-> year, last_notified_year |-> None]}

upsert_birthday(tbl, s, uid, name, day, month, year) ==
    IF conflict(tbl, uid, name) = {}
    THEN tbl \cup {[id |-> s + 1, user_id |-> uid, name |-> name, day |-> day,
                    month |-> month, year |-> year, last_notified_year |-> None]}
    ELSE {IF r \in conflict(tbl, uid, name)
          THEN [r EXCEPT !.day = day, !.month = month, !.year = year,
                         !.last_notified_year = None]
          ELSE r : r \in tbl}

\* db.py:54-60  DELETE ... WHERE user_id=? AND name=? COLLATE NOCASE
delete_birthday_any_user(tbl, uid, name) ==
    {r \in tbl : NOCASE(r.name) # NOCASE(name)}

delete_birthday(tbl, uid, name) == tbl \ conflict(tbl, uid, name)

\* db.py:63-79  SELECT name, day, month, year ... ORDER BY month, day, LOWER(name)
RECURSIVE bytes_less(_, _)
bytes_less(n1, n2) ==
    IF n2 = <<>> THEN FALSE
    ELSE IF n1 = <<>> THEN TRUE
    ELSE IF Head(n1) # Head(n2) THEN Head(n1) < Head(n2)
    ELSE bytes_less(Tail(n1), Tail(n2))

order_by(r1, r2) ==
    \/ r1.month < r2.month
    \/ r1.month = r2.month /\ r1.day < r2.day
    \/ r1.month = r2.month /\ r1.day = r2.day
         /\ bytes_less(LOWER(r1.name), LOWER(r2.name))

RECURSIVE ordered(_)
ordered(S) ==
    IF S = {} THEN <<>>
    ELSE LET first == CHOOSE r \in S : \A q \in S : ~order_by(q, r)
         IN  <<first>> \o ordered(S \ {first})

summary(r) == [name |-> r.name, day |-> r.day, month |-> r.month, year |-> r.year]

list_birthdays(tbl, uid) ==
    LET s == ordered({r \in tbl : r.user_id = uid})
    IN  [i \in 1..Len(s) |-> summary(s[i])]

\* db.py:82-85  SELECT DISTINCT user_id
get_all_users(tbl) == {r.user_id : r \in tbl}

\* db.py:88-110  SELECT id, name, ... WHERE user_id=?
get_birthdays_for_user(tbl, uid) == {r \in tbl : r.user_id = uid}

\* db.py:113-118  UPDATE ... SET last_notified_year=? WHERE id=?
set_last_notified_year_swapped(tbl, birthday_id, year) ==
    {IF r.id = year THEN [r EXCEPT !.last_notified_year = birthday_id] ELSE r
     : r \in tbl}

set_last_notified_year_all(tbl, birthday_id, year) ==
    {[r EXCEPT !.last_notified_year = year] : r \in tbl}

set_last_notified_year(tbl, birthday_id, year) ==
    {IF r.id = birthday_id THEN [r EXCEPT !.last_notified_year = year] ELSE r
     : r \in tbl}

\* ------------------------------------------------------------------- Init
NoCmd == [op |-> "none", user_id |-> 0, args |-> <<>>, name |-> <<>>,
          day |-> 0, month |-> 0, year |-> None, deleted |-> 0, items |-> <<>>,
          replies |-> <<>>]

\* db.init_db() on a fresh database file; daily_check is scheduled, not running
Init ==
    /\ clock \in {date(s[1], s[2], s[3]) : s \in StartDates}
    /\ birthdays = {}
    /\ seq = 0
    /\ pc = "idle"
    /\ today = ValueError
    /\ users = {}
    /\ user_id = 0
    /\ rows = {}
    /\ b = NoRow
    /\ outbox = <<>>
    /\ runs = <<>>
    /\ cmd = NoCmd
    /\ gen = [i \in Ids |-> 0]
    /\ nadd = 0
    /\ ndel = 0
    /\ ndays = 0

sweepVars == <<pc, today, users, user_id, rows, b, outbox, runs>>

\* a handler can run when daily_check is not running or is suspended in its await
CanInterleave == pc \in {"idle", "send"}

\* ---------------------------------------------------------- time source
\* midnight passes.  daily_check reads the clock once, at line 165, so a
\* midnight during a run has the effect of one right after it.
Tick ==
    /\ pc = "idle"
    /\ ndays < MaxDays
    /\ clock' = tomorrow(clock)
    /\ ndays' = ndays + 1
    /\ cmd' = NoCmd
    /\ UNCHANGED <<birthdays, seq, gen, nadd, ndel>>
    /\ UNCHANGED sweepVars

\* ---------------------------------------------------------- bot.py:79-103
\* a handler that returns early: one reply_text, no store call
refused(op, uid, args, reply) ==
    [NoCmd EXCEPT !.op = op, !.user_id = uid, !.args = args, !.replies = <<reply>>]

\* line 87: if not name
empty_name_never(name) == FALSE

empty_name(name) == name = <<>>

\* /add.  context.args come split at blanks, so strip() at lines 84-85 finds
\* nothing to remove.
add_cmd ==
    /\ CanInterleave
    /\ nadd < MaxAdds
    /\ \E uid \in Users, args \in AddArgs :
         IF Len(args) < 2 \/ empty_name(args[1]) \/ parsed[args[2]] = ParseError
         THEN /\ cmd' = refused("add_refused", uid, args,
                           IF Len(args) < 2 THEN "usage"
                           ELSE IF empty_name(args[1]) THEN "empty_name"
                           ELSE "bad_date")
              /\ UNCHANGED <<birthdays, seq, gen>>
         ELSE LET name == args[1]
                  d    == parsed[args[2]]
                  hit  == conflict(birthdays, uid, name) IN
              /\ birthdays' = upsert_birthday(birthdays, seq, uid, name, d[1], d[2], d[3])
              /\ seq' = seq + 1      \* AUTOINCREMENT: the attempted insert takes an id
              /\ gen' = [i \in Ids |->
                           IF (hit = {} /\ i = seq + 1) \/ (\E r \in hit : r.id = i)
                           THEN gen[i] + 1 ELSE gen[i]]
              /\ cmd' = [NoCmd EXCEPT !.op = "add", !.user_id = uid, !.args = args,
                                      !.name = name, !.day = d[1], !.month = d[2],
                                      !.year = d[3], !.replies = <<"saved">>]
    /\ nadd' = nadd + 1
    /\ UNCHANGED <<clock, ndel, ndays>>
    /\ UNCHANGED sweepVars

\* --------------------------------------------------------- bot.py:106-122
delete_cmd ==
    /\ CanInterleave
    /\ ndel < MaxDeletes
    /\ \E uid \in Users, args \in DeleteArgs :
         IF Len(args) < 1 \/ empty_name(args[1])
         THEN /\ cmd' = refused("delete_refused", uid, args,
                           IF Len(args) < 1 THEN "usage" ELSE "empty_name")
              /\ UNCHANGED birthdays
         ELSE LET name == args[1]
                  deleted == Cardinality(birthdays) -
                             Cardinality(delete_birthday(birthdays, uid, name)) IN
              /\ birthdays' = delete_birthday(birthdays, uid, name)
              /\ cmd' = [NoCmd EXCEPT !.op = "delete", !.user_id = uid, !.args = args,
                           !.name = name, !.deleted = deleted,
                           !.replies = IF deleted # 0 THEN <<"deleted">>
                                       ELSE <<"not_found">>]
    /\ ndel' = ndel + 1
    /\ UNCHANGED <<clock, seq, gen, nadd, ndays>>
    /\ UNCHANGED sweepVars

\* --------------------------------------------------------- bot.py:125-153
\* lines 139-144 call next_occurrence for every item; where it raises, the
\* handler ends with the exception and error_handler (189-195) replies
list_cmd ==
    /\ CanInterleave
    /\ \E uid \in Users :
         LET items == list_birthdays(birthdays, uid) IN
         cmd' = [NoCmd EXCEPT !.op = "list", !.user_id = uid, !.items = items,
                   !.replies =
                      IF items = <<>> THEN <<"empty">>
                      ELSE IF \E k \in DOMAIN items :
                                next_occurrence(items[k].day, items[k].month, clock)
                                    = ValueError
                      THEN <<"error">>
                      ELSE <<"listing">>]
    /\ UNCHANGED <<clock, birthdays, seq, gen, nadd, ndel, ndays>>
    /\ UNCHANGED sweepVars

\* --------------------------------------------------------- bot.py:164-186
storeVars == <<clock, birthdays, seq, gen, nadd, ndel, ndays>>

\* lines 165-166: today = date.today(); for user_id in db.get_all_users()
sweep_start ==
    /\ pc = "idle"
    /\ Len(runs) < MaxSweeps
    /\ runs' = Append(runs, [today |-> clock, outcome |-> "running"])
    /\ today' = clock
    /\ users' = get_all_users(birthdays)
    /\ pc' = "for_user"
    /\ cmd' = NoCmd
    /\ UNCHANGED <<user_id, rows, b, outbox>>
    /\ UNCHANGED storeVars

\* line 166 exhausted: daily_check returns and its locals are gone
sweep_done ==
    /\ pc = "for_user"
    /\ users = {}
    /\ pc' = "idle"
    /\ runs' = [runs EXCEPT ![Len(runs)].outcome = "completed"]
    /\ today' = ValueError /\ user_id' = 0 /\ b' = NoRow
    /\ cmd' = NoCmd
    /\ UNCHANGED <<users, rows, outbox>>
    /\ UNCHANGED storeVars

\* lines 166-167: next user; for b in db.get_birthdays_for_user(user_id).
\* Neither query has an ORDER BY: any order.
sweep_user ==
    /\ pc = "for_user"
    /\ \E u \in users :
         /\ user_id' = u
         /\ users' = users \ {u}
         /\ rows' = get_birthdays_for_user(birthdays, u)
    /\ pc' = "for_b"
    /\ cmd' = NoCmd
    /\ UNCHANGED <<today, b, outbox, runs>>
    /\ UNCHANGED storeVars

\* line 167 exhausted: back to the outer loop
sweep_user_done ==
    /\ pc = "for_b"
    /\ rows = {}
    /\ pc' = "for_user"
    /\ cmd' = NoCmd
    /\ UNCHANGED <<today, users, user_id, rows, b, outbox, runs>>
    /\ UNCHANGED storeVars

\* lines 168-176 for a row that is skipped (continue)
sweep_skip ==
    /\ pc = "for_b"
    /\ \E r \in rows :
         LET occ == next_occurrence(r.day, r.month, today) IN
         /\ occ # ValueError
         /\ \/ ~in_window(days_between(occ, today))
            \/ already_notified(r, occ)
         /\ rows' = rows \ {r}
    /\ cmd' = NoCmd
    /\ UNCHANGED <<pc, today, users, user_id, b, outbox, runs>>
    /\ UNCHANGED storeVars

\* line 168 raising: date() rejects the day and nothing in daily_check catches
\* it; the job ends with the exception and its locals are gone
sweep_crash ==
    /\ pc = "for_b"
    /\ \E r \in rows : next_occurrence(r.day, r.month, today) = ValueError
    /\ pc' = "idle"
    /\ runs' = [runs EXCEPT ![Len(runs)].outcome = "crashed"]
    /\ today' = ValueError /\ users' = {} /\ user_id' = 0
    /\ rows' = {} /\ b' = NoRow
    /\ cmd' = NoCmd
    /\ UNCHANGED outbox
    /\ UNCHANGED storeVars

\* lines 168-183: the row is due; send_message is called and awaited
sweep_send ==
    /\ pc = "for_b"
    /\ \E r \in rows :
         LET occ == next_occurrence(r.day, r.month, today) IN
         /\ occ # ValueError
         /\ in_window(days_between(occ, today))
         /\ ~already_notified(r, occ)
         /\ rows' = rows \ {r}
         /\ b' = r
         /\ outbox' = Append(outbox,
                [run |-> Len(runs), chat_id |-> user_id, id |-> r.id,
                 owner |-> r.user_id, name |-> r.name,
                 day |-> r.day, month |-> r.month,
                 today |-> today, occ_year |-> occ.year,
                 days_left |-> days_between(occ, today),
                 last_notified_year |-> r.last_notified_year,
                 gen |-> gen[r.id], result |-> "pending"])
    /\ pc' = "send"
    /\ cmd' = NoCmd
    /\ UNCHANGED <<today, users, user_id, runs>>
    /\ UNCHANGED storeVars

\* line 184: send_message returned; db.set_last_notified_year(b["id"], occ.year)
send_ok ==
    /\ pc = "send"
    /\ birthdays' = set_last_notified_year(birthdays, b.id,
                        next_occurrence(b.day, b.month, today).year)
    /\ outbox' = [outbox EXCEPT ![Len(outbox)].result = "ok"]
    /\ pc' = "for_b"
    /\ b' = NoRow
    /\ cmd' = NoCmd
    /\ UNCHANGED <<clock, seq, gen, nadd, ndel, ndays>>
    /\ UNCHANGED <<today, users, user_id, rows, runs>>

\* lines 185-186: send_message raised; the exception is logged
send_fail ==
    /\ pc = "send"
    /\ outbox' = [outbox EXCEPT ![Len(outbox)].result = "failed"]
    /\ pc' = "for_b"
    /\ b' = NoRow
    /\ cmd' = NoCmd
    /\ UNCHANGED <<today, users, user_id, rows, runs>>
    /\ UNCHANGED storeVars

Next ==
    \/ Tick
    \/ add_cmd
    \/ delete_cmd
    \/ list_cmd
    \/ sweep_start
    \/ sweep_done
    \/ sweep_user
    \/ sweep_user_done
    \/ sweep_skip
    \/ sweep_crash
    \/ sweep_send
    \/ send_ok
    \/ send_fail

Spec == Init /\ [][Next]_vars

\* --------------------------------------------------------------------------
\* The process restarted on the database file of an earlier process
\* (db.py:23 CREATE TABLE IF NOT EXISTS keeps the rows), and daily_check runs
\* with no command arriving but /list.
StoredNames == <<(<<1072>>), (<<1071>>)>>

stored_row(k, d) ==
    [id |-> k, user_id |-> 2 - (k % 2), name |-> StoredNames[(((k - 1) \div 2) % 2) + 1],
     day |-> d[1], month |-> d[2], year |-> d[3], last_notified_year |-> None]

InitStored ==
    /\ clock \in {date(s[1], s[2], s[3]) : s \in StartDates}
    /\ \E present \in SUBSET (1..MaxStored) :
       \E f \in [1..MaxStored -> BirthdayInputs] :
         /\ birthdays = {stored_row(k, f[k]) : k \in present}
         /\ gen = [i \in Ids |-> IF i \in present THEN 1 ELSE 0]
    /\ seq = MaxStored
    /\ pc = "idle"
    /\ today = ValueError
    /\ users = {}
    /\ user_id = 0
    /\ rows = {}
    /\ b = NoRow
    /\ outbox = <<>>
    /\ runs = <<>>
    /\ cmd = NoCmd
    /\ nadd = 0
    /\ ndel = 0
    /\ ndays = 0

NextStored ==
    \/ Tick
    \/ list_cmd
    \/ sweep_start
    \/ sweep_done
    \/ sweep_user
    \/ sweep_user_done
    \/ sweep_skip
    \/ sweep_crash
    \/ sweep_send
    \/ send_ok
    \/ send_fail

SpecStored == InitStored /\ [][NextStored]_vars

\* --------------------------------------------------------------------------
\* The job queue at work (bot.py:216 run_daily): on the database file of an
\* earlier process daily_check runs once on every day, every send_message
\* succeeds, and no command arrives.
InitDaily ==
    /\ clock \in {date(s[1], s[2], s[3]) : s \in DailyStartDates}
    /\ \E present \in SUBSET (1..MaxStored) :
       \E f \in [1..MaxStored -> BirthdayInputs] :
         /\ birthdays = {stored_row(k, f[k]) : k \in present}
         /\ gen = [i \in Ids |-> IF i \in present THEN 1 ELSE 0]
    /\ seq = MaxStored
    /\ pc = "idle"
    /\ today = ValueError
    /\ users = {}
    /\ user_id = 0
    /\ rows = {}
    /\ b = NoRow
    /\ outbox = <<>>
    /\ runs = <<>>
    /\ cmd = NoCmd
    /\ nadd = 0
    /\ ndel = 0
    /\ ndays = 0

\* daily_check has run on the day the clock shows
swept_today == runs # <<>> /\ runs[Len(runs)].today = clock

\* midnight passes after the day's run
midnight ==
    /\ pc = "idle"
    /\ swept_today
    /\ ndays < MaxDailyDays
    /\ clock' = tomorrow(clock)
    /\ ndays' = ndays + 1
    /\ cmd' = NoCmd
    /\ UNCHANGED <<birthdays, seq, gen, nadd, ndel>>
    /\ UNCHANGED sweepVars

\* CHECK_TIME of a day: the job queue calls daily_check (lines 165-166)
run_daily ==
    /\ pc = "idle"
    /\ ~swept_today
    /\ runs' = Append(runs, [today |-> clock, outcome |-> "running"])
    /\ today' = clock
    /\ users' = get_all_users(birthdays)
    /\ pc' = "for_user"
    /\ cmd' = NoCmd
    /\ UNCHANGED <<user_id, rows, b, outbox>>
    /\ UNCHANGED storeVars

NextDaily ==
    \/ midnight
    \/ run_daily
    \/ sweep_done
    \/ sweep_user
    \/ sweep_user_done
    \/ sweep_skip
    \/ sweep_crash
    \/ sweep_send
    \/ send_ok

\* the job queue calls the job every day and a started run goes on
SpecDaily == InitDaily /\ [][NextDaily]_vars /\ WF_vars(NextDaily)

\* --------------------------------------------------------------------------
\* parse_date on its own: a text is given, and parse_date is applied to it.
Seps == {".", "-", "/"}

\* "29", "30", "31", "1", "00", "x"
DayTexts == {<<"2", "9">>, <<"3", "0">>, <<"3", "1">>, <<"1">>, <<"0", "0">>, <<"x">>}

\* "02", "2", "04", "12", "13"
MonthTexts == {<<"0", "2">>, <<"2">>, <<"0", "4">>, <<"1", "2">>, <<"1", "3">>}

\* "2023", "2024", "1900", "2000"
YearTexts == {<<"2", "0", "2", "3">>, <<"2", "0", "2", "4">>,
              <<"1", "9", "0", "0">>, <<"2", "0", "0", "0">>}

\* "", " 29.02 ", "14.02-2004", "1.2.3.4", "+1.+2", "14.02.04"
OtherTexts ==
    {<<>>,
     <<" ", "2", "9", ".", "0", "2", " ">>,
     <<"1", "4", ".", "0", "2", "-", "2", "0", "0", "4">>,
     <<"1", ".", "2", ".", "3", ".", "4">>,
     <<"+", "1", ".", "+", "2">>,
     <<"1", "4", ".", "0", "2", ".", "0", "4">>}

ParseTexts ==
    {d \o <<s>> \o m : d \in DayTexts, s \in Seps, m \in MonthTexts}
        \cup {d \o <<s>> \o m \o <<s>> \o y :
                d \in DayTexts, s \in Seps, m \in MonthTexts, y \in YearTexts}
        \cup {y \o <<"-">> \o m \o <<"-">> \o d :
                y \in YearTexts, m \in MonthTexts, d \in DayTexts}
        \cup OtherTexts

InitParse ==
    /\ clock \in {date(s[1], s[2], s[3]) : s \in StartDates}
    /\ birthdays = {}
    /\ seq = 0
    /\ pc = "idle"
    /\ today = ValueError
    /\ users = {}
    /\ user_id = 0
    /\ rows = {}
    /\ b = NoRow
    /\ outbox = <<>>
    /\ runs = <<>>
    /\ \E raw \in ParseTexts : cmd = [NoCmd EXCEPT !.op = "text", !.args = <<raw>>]
    /\ gen = [i \in Ids |-> 0]
    /\ nadd = 0
    /\ ndel = 0
    /\ ndays = 0

\* parse_date(raw) returns (day, month, year) or raises
parse_date_call ==
    /\ cmd.op = "text"
    /\ LET res == parse_date(cmd.args[1]) IN
       cmd' = IF res = ParseError
              THEN [cmd EXCEPT !.op = "raised"]
              ELSE [cmd EXCEPT !.op = "returned", !.day = res[1], !.month = res[2],
                               !.year = res[3]]
    /\ UNCHANGED storeVars
    /\ UNCHANGED sweepVars

NextParse == parse_date_call

SpecParse == InitParse /\ [][NextParse]_vars

TypeOK ==
    /\ pc \in {"idle", "for_user", "for_b", "send"}
    /\ seq \in 0..(MaxAdds + MaxStored)
    /\ ndays \in 0..MaxDailyDays
    /\ \A r \in birthdays : r.id \in 1..seq /\ r.user_id \in Users
    /\ pc = "send" <=> b # NoRow
\* ================================================================= claims
\* letter case as the claims mean it: Latin and Cyrillic capitals both fold
ignore_case_char(c) ==
    IF (c >= 65 /\ c <= 90) \/ (c >= 1040 /\ c <= 1071) THEN c + 32 ELSE c

ignore_case(name) == [i \in 1..Len(name) |-> ignore_case_char(name[i])]

Delivered(i) == outbox[i].result = "ok"

\* C1 as claimed: for every record id and occurrence year, at most one
\* reminder is delivered, whatever upserts happen in between.
C1_AtMostOnePerRecordAndYear ==
    \A i, j \in DOMAIN outbox :
        (i < j /\ Delivered(i) /\ Delivered(j) /\ outbox[i].id = outbox[j].id)
            => outbox[i].occ_year # outbox[j].occ_year

\* C1 as amended: for every record id and occurrence year, at most one
\* reminder is delivered between two upserts of that record; an upsert of
\* the record resets last_notified_year and so reopens the year.
C1_AtMostOnePerRecordYearAndUpsert ==
    \A i, j \in DOMAIN outbox :
        (i < j /\ Delivered(i) /\ Delivered(j) /\ outbox[i].id = outbox[j].id
               /\ outbox[i].gen = outbox[j].gen)
            => outbox[i].occ_year # outbox[j].occ_year

\* C1 witness: a record was reminded, a later run of daily_check evaluated it
\* again without an upsert in between, and it was not sent a second time.
C1_NotifiedOnceOverTwoRuns ==
    /\ Len(runs) = 2 /\ runs[2].outcome = "completed"
    /\ Len(outbox) = 1 /\ Delivered(1) /\ outbox[1].run = 1
    /\ \E r \in birthdays :
         /\ r.id = outbox[1].id /\ gen[r.id] = outbox[1].gen
         /\ r.last_notified_year = outbox[1].occ_year

\* C2: a due record that is delivered is sent exactly once in that run and
\* is then marked with the occurrence's year, and a later run on the same day
\* does not send it again.
C2_SentOnceThenMarked ==
    /\ \A i, j \in DOMAIN outbox :
         (i < j /\ outbox[i].id = outbox[j].id) =>
            /\ outbox[i].run # outbox[j].run
            /\ (Delivered(i) /\ outbox[i].gen = outbox[j].gen)
                  => outbox[i].today # outbox[j].today
    /\ \A i \in DOMAIN outbox : \A r \in birthdays :
         (/\ Delivered(i) /\ r.id = outbox[i].id /\ gen[r.id] = outbox[i].gen
          /\ \A j \in DOMAIN outbox : (j > i /\ outbox[j].id = r.id) => ~Delivered(j))
            => r.last_notified_year = outbox[i].occ_year

\* C2 witness: a record at the edge of the window (daysLeft = 3) that had
\* never been notified was delivered in one run, and a second run on the
\* same day has completed.
C2_DeliveredThenRerunSameDay ==
    /\ Len(runs) = 2 /\ runs[2].outcome = "completed"
    /\ runs[1].today = runs[2].today
    /\ Len(outbox) = 1 /\ Delivered(1)
    /\ outbox[1].days_left = DAYS_BEFORE
    /\ outbox[1].last_notified_year = None
    /\ \E r \in birthdays : r.id = outbox[1].id /\ r.last_notified_year = outbox[1].occ_year

\* C3 as claimed: no two records of one owner have names that are equal
\* ignoring letter case.
C3_OneRecordPerOwnerAndName ==
    \A r1, r2 \in birthdays :
        (r1.user_id = r2.user_id /\ ignore_case(r1.name) = ignore_case(r2.name))
            => r1 = r2

\* C4 as claimed: after an upsert there is exactly one record of that owner
\* whose name equals the given one ignoring letter case; it carries the
\* day, month and year of the call and a null last_notified_year.
C4_UpsertLeavesOneFreshRecord ==
    [][cmd'.op = "add" =>
        \E r \in birthdays' :
            /\ r.day = cmd'.day /\ r.month = cmd'.month /\ r.year = cmd'.year
            /\ r.last_notified_year = None
            /\ \A q \in birthdays' :
                 (q.user_id = cmd'.user_id
                    /\ ignore_case(q.name) = ignore_case(cmd'.name)) <=> q = r
      ]_vars
Failed(i) == outbox[i].result = "failed"

Passed(s, id) == \E j \in DOMAIN outbox : outbox[j].run = s /\ outbox[j].id = id

\* the record is in the reminder window on that day and not yet marked for
\* that occurrence
Due(r, day) ==
    LET occ == next_occurrence(r.day, r.month, day) IN
    /\ occ # ValueError
    /\ 0 <= days_between(occ, day) /\ days_between(occ, day) <= DAYS_BEFORE
    /\ r.last_notified_year # occ.year

\* C5 as claimed: a failed delivery leaves last_notified_year as it was, and
\* the next run of daily_check passes the same record to send_message again
\* if the record is unchanged and still in the window.
C5_FailedDeliveryIsRetriedNextRun ==
    \A i \in DOMAIN outbox : \A r \in birthdays :
        (/\ Failed(i) /\ r.id = outbox[i].id /\ gen[r.id] = outbox[i].gen
         /\ \A j \in DOMAIN outbox : (j > i /\ outbox[j].id = r.id) => ~Delivered(j))
        => /\ r.last_notified_year = outbox[i].last_notified_year
           /\ (/\ Len(runs) = outbox[i].run + 1
               /\ runs[Len(runs)].outcome # "running"
               /\ Due(r, runs[Len(runs)].today))
                 => Passed(Len(runs), r.id)

C7_NoCrashOnAnyStoredDate ==
    /\ \A r \in birthdays : next_occurrence(r.day, r.month, clock) # ValueError
    /\ \A s \in DOMAIN runs : runs[s].outcome # "crashed"

\* C8: a record that daily_check finds more than DAYS_BEFORE days ahead is
\* never passed to send_message, and no step of daily_check changes the
\* last_notified_year of a record other than the one it has just delivered,
\* which it found within the window.
C8_OutsideWindowNeverSentNorMarked ==
    [][/\ Len(outbox') > Len(outbox) =>
             LET e == outbox'[Len(outbox')]
                 occ == next_occurrence(e.day, e.month, e.today) IN
             /\ occ # ValueError
             /\ days_between(occ, e.today) <= DAYS_BEFORE
             /\ e.days_left = days_between(occ, e.today)
       /\ (birthdays' # birthdays /\ cmd'.op = "none") =>
             \A r \in birthdays : \A q \in birthdays' :
                (r.id = q.id /\ r.last_notified_year # q.last_notified_year)
                => /\ pc = "send" /\ r.id = b.id
                   /\ days_between(next_occurrence(b.day, b.month, today), today)
                         <= DAYS_BEFORE
      ]_vars

\* C8 witness: daily_check has gone through all rows of a user, one of them
\* DAYS_BEFORE + 1 days ahead and never notified, and has sent nothing.
C8_SkippedJustOutsideWindow ==
    /\ pc = "for_b" /\ rows = {} /\ outbox = <<>>
    /\ \E r \in birthdays :
         /\ r.user_id = user_id /\ r.last_notified_year = None
         /\ next_occurrence(r.day, r.month, today) # ValueError
         /\ days_between(next_occurrence(r.day, r.month, today), today)
               = DAYS_BEFORE + 1

\* the date the claim gives: this year's if not before today, else next year's
claimed_occurrence(day, month, day0) ==
    [year  |-> IF month < day0.month \/ (month = day0.month /\ day < day0.day)
               THEN day0.year + 1 ELSE day0.year,
     month |-> month, day |-> day]

\* C9 as claimed: for every stored (day, month) and every today,
\* next_occurrence returns (today.year, month, day) when that is on or after
\* today and (today.year + 1, month, day) otherwise, so the result is never
\* before today.
C9_NextOccurrenceIsNextSuchDay ==
    \A r \in birthdays :
        LET occ == next_occurrence(r.day, r.month, clock) IN
        /\ occ = claimed_occurrence(r.day, r.month, clock)
        /\ days_between(occ, clock) >= 0

\* C10: a command of owner o leaves every record of every other owner as it
\* was, /list of o shows records of o only, daily_check reads for a user only
\* that user's rows and sends a record's reminder to the record's owner.
C10_NoCrossUserEffect ==
    [][/\ cmd'.op \in {"add", "delete"} =>
             {r \in birthdays' : r.user_id # cmd'.user_id}
                = {r \in birthdays : r.user_id # cmd'.user_id}
       /\ cmd'.op = "list" =>
             /\ \A k \in DOMAIN cmd'.items :
                   \E r \in birthdays :
                       r.user_id = cmd'.user_id /\ summary(r) = cmd'.items[k]
             /\ Len(cmd'.items)
                   = Cardinality({r \in birthdays : r.user_id = cmd'.user_id})
       /\ \A r \in rows' : r.user_id = user_id'
       /\ \A i \in DOMAIN outbox' :
             /\ outbox'[i].chat_id = outbox'[i].owner
             /\ \A r \in birthdays' :
                   r.id = outbox'[i].id => r.user_id = outbox'[i].chat_id
      ]_vars

\* C10 witness: an owner deleted a record while another owner holds a record
\* of the same name, which is still there.
C10_DeletedBesideNamesake ==
    /\ cmd.op = "delete" /\ cmd.deleted = 1
    /\ \E r \in birthdays :
         r.user_id # cmd.user_id /\ NOCASE(r.name) = NOCASE(cmd.name)

\* C11 as claimed: delete(owner, name) returns the number of records it
\* removed, which is 0 or 1; if no record of the owner has that name ignoring
\* letter case it removes nothing, and if one has, that record is removed
\* and no other.
C11_DeleteRemovesTheMatchingRecord ==
    [][cmd'.op = "delete" =>
        LET match == {r \in birthdays :
                        /\ r.user_id = cmd'.user_id
                        /\ ignore_case(r.name) = ignore_case(cmd'.name)}
        IN  /\ birthdays' \subseteq birthdays
            /\ cmd'.deleted = Cardinality(birthdays \ birthdays')
            /\ cmd'.deleted \in {0, 1}
            /\ match = {} => (cmd'.deleted = 0 /\ birthdays' = birthdays)
            /\ match # {} => (cmd'.deleted = 1 /\ (birthdays \ birthdays') \subseteq match)
      ]_vars

\* the order the claim gives: month, then day, then the name ignoring case
claimed_le(x, y) ==
    \/ x.month < y.month
    \/ x.month = y.month /\ x.day < y.day
    \/ x.month = y.month /\ x.day = y.day
         /\ ~bytes_less(ignore_case(y.name), ignore_case(x.name))

\* C12 as claimed: list(owner) returns the summaries of exactly the owner's
\* records, each once, in ascending order of month, then day, then name
\* ignoring letter case.
C12_ListIsOrderedIgnoringCase ==
    cmd.op = "list" =>
        LET own == {r \in birthdays : r.user_id = cmd.user_id} IN
        /\ Len(cmd.items) = Cardinality(own)
        /\ \A r \in own : \E k \in DOMAIN cmd.items : cmd.items[k] = summary(r)
        /\ \A k \in DOMAIN cmd.items : \E r \in own : cmd.items[k] = summary(r)
        /\ \A i, j \in DOMAIN cmd.items :
              i < j => claimed_le(cmd.items[i], cmd.items[j])

\* C13 as claimed: for every year Y, leap or not, parse_date returns
\* (29, 2, Y) for "29.02.Y", "29-02-Y" and "29/02/Y", and (29, 2, None) for
\* "29.02".
C13_Feb29AcceptedForAnyYear ==
    cmd.op \in {"returned", "raised"} =>
        /\ \A s \in Seps, y \in YearTexts :
              cmd.args[1] = <<"2", "9", s, "0", "2", s>> \o y =>
                 /\ cmd.op = "returned"
                 /\ <<cmd.day, cmd.month, cmd.year>> = <<29, 2, digits_value(y)>>
        /\ cmd.args[1] = <<"2", "9", ".", "0", "2">> =>
              /\ cmd.op = "returned"
              /\ <<cmd.day, cmd.month, cmd.year>> = <<29, 2, None>>

\* C14: an /add whose date text is one that must not parse (no accepted
\* pattern, a non-numeric component, a month outside 1..12, a day out of
\* range for the month) or whose name is empty leaves the table and the id
\* counter as they were, and the user gets exactly one reply, the guidance.
C14_BadAddNeverReachesStore ==
    [][(/\ cmd'.op \in {"add", "add_refused"}
        /\ Len(cmd'.args) >= 2
        /\ (cmd'.args[1] = <<>> \/ cmd'.args[2] \in BadDateTexts))
       => /\ birthdays' = birthdays
          /\ seq' = seq
          /\ Len(cmd'.replies) = 1
          /\ cmd'.replies[1] \in {"empty_name", "bad_date"}
      ]_vars

\* C14 witness: "31.02" was refused with the date guidance while the table
\* holds a record.
C14_Feb31RefusedBesideRecord ==
    /\ cmd.op = "add_refused" /\ Len(cmd.args) = 2
    /\ cmd.args[2] = <<"3", "1", ".", "0", "2">>
    /\ cmd.replies = <<"bad_date">>
    /\ birthdays # {}

\* the number of days of a month in a leap year
claimed_days(month) ==
    IF month = 2 THEN 29 ELSE IF month \in {4, 6, 9, 11} THEN 30 ELSE 31

\* C15: every stored record has a month in 1..12 and a day that exists in
\* that month in a leap year.
C15_StoredDayMonthValid ==
    \A r \in birthdays :
        /\ r.month >= 1 /\ r.month <= 12
        /\ r.day >= 1 /\ r.day <= claimed_days(r.month)

\* C15 witness: after adds and a delete that removed a record, a record of
\* 29 February is stored.
C15_Feb29StoredAfterDelete ==
    /\ cmd.op = "delete" /\ cmd.deleted = 1
    /\ \E r \in birthdays : r.day = 29 /\ r.month = 2

\* C16 as claimed: a record whose last_notified_year is set has had a
\* reminder delivered for the day and month it now carries, for the year
\* recorded.
C16_NotifiedYearRefersToCurrentDate ==
    \A r \in birthdays :
        r.last_notified_year # None =>
            \E i \in DOMAIN outbox :
                /\ Delivered(i) /\ outbox[i].id = r.id
                /\ outbox[i].day = r.day /\ outbox[i].month = r.month
                /\ outbox[i].occ_year = r.last_notified_year

\* C18: an upsert leaves every record that existed in the table, with its id,
\* owner and name spelling; a record whose owner or name (ignoring case)
\* differs from the upsert's is unchanged altogether; and a record that the
\* upsert creates gets an id that no record has ever had.
C18_UpsertKeepsIdAndName ==
    [][cmd'.op = "add" =>
        /\ \A r \in birthdays : \E q \in birthdays' :
              /\ q.id = r.id /\ q.user_id = r.user_id /\ q.name = r.name
              /\ (\/ r.user_id # cmd'.user_id
                  \/ ignore_case(r.name) # ignore_case(cmd'.name)) => q = r
        /\ \A q \in birthdays' :
              (\A r \in birthdays : r.id # q.id) => gen[q.id] = 0
        /\ \A q1, q2 \in birthdays' : q1.id = q2.id => q1 = q2
      ]_vars

\* C18 witness: an upsert with another spelling of an existing name and
\* another date has updated the first record, which keeps id 1 and its name.
C18_RespelledUpsertKeptRecord ==
    /\ cmd.op = "add"
    /\ \E r \in birthdays :
         /\ r.id = 1 /\ gen[1] = 2
         /\ r.user_id = cmd.user_id /\ r.name # cmd.name
         /\ r.day = cmd.day /\ r.month = cmd.month /\ r.year = cmd.year

\* C19: a step of daily_check that changes the table changes one record,
\* the one whose id it has just delivered for, and of that record only
\* last_notified_year, which becomes the year of the occurrence delivered;
\* if no record has that id any more, the table stays as it is.
C19_SweepWritesOnlyNotifiedYear ==
    [][(cmd'.op = "none" /\ birthdays' # birthdays) =>
        /\ pc = "send"
        /\ \E r \in birthdays :
              /\ r.id = b.id
              /\ birthdays' = (birthdays \ {r}) \cup
                    {[r EXCEPT !.last_notified_year = outbox[Len(outbox)].occ_year]}
      ]_vars

\* C19 witness: while a reminder was being sent its record was deleted and
\* the name added again; the delivery then succeeded, no record has the id
\* it was sent for, and the new record of that name is not marked.
C19_DeliveredForDeletedRecord ==
    /\ pc = "for_b" /\ outbox # <<>>
    /\ LET e == outbox[Len(outbox)] IN
       /\ e.result = "ok"
       /\ \A r \in birthdays : r.id # e.id
       /\ \E r \in birthdays :
            /\ r.user_id = e.owner /\ r.name = e.name
            /\ r.last_notified_year = None

\* C17 as claimed: when daily_check runs once every day and every delivery
\* succeeds, a record that has been in the table unchanged since at least
\* DAYS_BEFORE days before an occurrence has had its reminder for that
\* occurrence delivered by the end of the run of the occurrence's day, in
\* the first year and in every later one.
C17_NotifiedByOccurrenceDay ==
    \A s \in DOMAIN runs : \A r \in birthdays :
        (/\ runs[s].outcome # "running"
         /\ r.day = runs[s].today.day /\ r.month = runs[s].today.month
         /\ days_between(runs[s].today, runs[1].today) >= DAYS_BEFORE)
        => \E i \in DOMAIN outbox :
              /\ Delivered(i) /\ outbox[i].id = r.id
              /\ outbox[i].run <= s
              /\ outbox[i].occ_year = runs[s].today.year
====
